---------------------------- MODULE Spec2Model ----------------------------
(***************************************************************************)
(* vmware_host_nfs: mount or unmount an NFS datastore on an ESXi host.     *)
(*                                                                         *)
(* The model follows one host's datastore collection through a series of   *)
(* invocations of main().  One invocation is a walk through pc:            *)
(*   idle/done -> check -> dispatch -> mount | unmount | unchanged -> done *)
(* with a detour through "except" whenever something raised inside the     *)
(* try block.  The remote API (connect, host lookup, datastore listing,    *)
(* CreateNasDatastore, RemoveDatastore) is outside the module: each of     *)
(* its calls either returns or raises, chosen nondeterministically.        *)
(***************************************************************************)
EXTENDS Integers, Sequences, FiniteSets, TLC

\* Most datastores the modelled host holds; CreateNasDatastore on a full
\* host raises (the host's NFS volume limit).
MaxDatastores == 2

DatastoreNames == {"ds1", "ds2", "ds3"}
EsxiHostnames  == {"esx1", "esx-missing"}
KnownHosts     == {"esx1"}
NfsServers     == {"nfs1", "nfs2"}
NfsPaths       == {"/export"}
States         == {"present", "absent"}

\* A key that a report does not carry.
NoKey == "<no key>"

VARIABLES
    HAS_PYVMOMI,      \* whether the pyVmomi import succeeded
    host_datastores,  \* host_mo.configManager.datastoreSystem.datastore
    pc,               \* position of the running invocation
    params,           \* module.params
    check_mode,       \* module.check_mode
    status,           \* what check_datastore_status returned
    exc,              \* the exception travelling to main's except clauses
    calls,            \* mutating remote calls issued by this invocation
    reports,          \* exit_json / fail_json reports of this invocation
    handler,          \* the handler the dispatch table selected
    before,           \* the host's datastores when the invocation started
    prev_mounted      \* the previous invocation had the same inputs and mounted

vars == <<HAS_PYVMOMI, host_datastores, pc, params, check_mode, status, exc,
          calls, reports, handler, before, prev_mounted>>

--------------------------------------------------------------------------
(* Python values *)

PyNone == [type |-> "NoneType", mo |-> 0]
Datastore(mo) == [type |-> "vim.Datastore", mo |-> mo]

\* str(result) as exit_json receives it
PyStr(v) == IF v.type = "NoneType" THEN "None"
            ELSE "'" \o v.type \o ":datastore-" \o ToString(v.mo) \o "'"

NoExc == [kind |-> "none", text |-> "", msg |-> "", str |-> ""]

\* vmodl faults carry their message in .msg; str() of a fault is a dump of
\* the whole fault object.  Other exceptions have no .msg; str() is the message.
RuntimeFault(t) == [kind |-> "RuntimeFault", text |-> t, msg |-> t,
                    str |-> "(vmodl.RuntimeFault) {msg = '" \o t \o "'}"]
MethodFault(t)  == [kind |-> "MethodFault", text |-> t, msg |-> t,
                    str |-> "(vmodl.MethodFault) {msg = '" \o t \o "'}"]
PyException(k, t) == [kind |-> k, text |-> t, msg |-> NoKey, str |-> t]

\* vmodl.RuntimeFault derives from vmodl.MethodFault, which derives from
\* Exception; everything raised here derives from Exception.
IsInstance(e, cls) ==
    CASE cls = "RuntimeFault" -> e.kind = "RuntimeFault"
      [] cls = "MethodFault"  -> e.kind \in {"RuntimeFault", "MethodFault"}
      [] cls = "Exception"    -> e.kind # "none"

\* What a remote call may raise.
RemoteErrors == { RuntimeFault("connection lost"),
                  MethodFault("operation rejected"),
                  PyException("IOError", "socket error") }

--------------------------------------------------------------------------
(* The host's datastore collection: a sequence of [mo, name], names and    *)
(* handles distinct.                                                       *)

NamesOf(ds) == {ds[i].name : i \in 1..Len(ds)}
MosOf(ds) == {ds[i].mo : i \in 1..Len(ds)}

Collections ==
    {ds \in UNION {[1..n -> [mo : 1..MaxDatastores, name : DatastoreNames]] :
                     n \in 0..MaxDatastores} :
        /\ \A i, j \in 1..Len(ds) :
               i # j => ds[i].name # ds[j].name /\ ds[i].mo # ds[j].mo}

FreshMo(ds) == CHOOSE m \in 1..(Len(ds) + 1) : m \notin MosOf(ds)

InsertAt(ds, i, d) == SubSeq(ds, 1, i - 1) \o <<d>> \o SubSeq(ds, i, Len(ds))
RemoveMo(ds, mo) == SelectSeq(ds, LAMBDA d : d.mo # mo)

--------------------------------------------------------------------------
(* mount_nfsvolume / unmount_nfsvolume: the argument of the remote call *)

NfsDsSpec(nfs_server, nfs_path, local_path, nfs_readonly) ==
    [remoteHost |-> nfs_server,
     remotePath |-> nfs_path,
     localPath  |-> local_path,
     accessMode |-> IF nfs_readonly THEN "readOnly" ELSE "readWrite"]

\* One entry of the log of mutating remote calls: the NAS volume
\* specification CreateNasDatastore got, or the datastore handle
\* RemoveDatastore got; ok says whether the call returned.
CreateCall(spec, ok) == [op |-> "CreateNasDatastore", spec |-> spec, mo |-> 0, ok |-> ok]
RemoveCall(mo, ok) ==
    [op |-> "RemoveDatastore", spec |-> NfsDsSpec("", "", "", FALSE), mo |-> mo, ok |-> ok]

\* What CreateNasDatastore raises on its own account: the name is taken
\* (vim.fault.DuplicateName) or the host holds its maximum of volumes.
CreateRejected(ds, spec) ==
    IF spec.localPath \in NamesOf(ds) THEN {MethodFault("DuplicateName")}
    ELSE IF Len(ds) >= MaxDatastores THEN {MethodFault("NasConfigFault")}
    ELSE {}

--------------------------------------------------------------------------
(* Reports *)

ExitReport(changed, result) ==
    [kind |-> "exit_json", changed |-> changed, result |-> result, msg |-> NoKey]
FailReport(msg) ==
    [kind |-> "fail_json", changed |-> FALSE, result |-> NoKey, msg |-> msg]

--------------------------------------------------------------------------
(* check_datastore_status: the loop over host_datastores.  Both branches   *)
(* of the loop body return, so only the first entry is looked at; an empty *)
(* collection falls off the end of the function, which returns None.       *)

\* A presence check that scans the whole collection for the name.
RECURSIVE ScanFrom(_, _, _)
ScanFrom(datastores, datastore_name, i) ==
    IF i > Len(datastores)
    THEN [status |-> "absent", datastore_mo |-> 0]
    ELSE IF datastores[i].name = datastore_name
         THEN [status |-> "present", datastore_mo |-> datastores[i].mo]
         ELSE ScanFrom(datastores, datastore_name, i + 1)

CheckLoopScanAll(datastores, datastore_name) == ScanFrom(datastores, datastore_name, 1)

CheckLoop(datastores, datastore_name) ==
    IF Len(datastores) = 0
    THEN [status |-> "None", datastore_mo |-> 0]
    ELSE LET host_datastore == datastores[1] IN
         IF host_datastore.name = datastore_name
         THEN [status |-> "present", datastore_mo |-> host_datastore.mo]
         ELSE [status |-> "absent", datastore_mo |-> 0]

\* datastore_states in main; the key None is not in the inner dictionaries.
DatastoreStates ==
    [state \in States |->
        [actual \in States |->
            CASE state = "absent"  /\ actual = "present" -> "state_unmount_datastore"
              [] state = "absent"  /\ actual = "absent"  -> "state_exit_unchanged"
              [] state = "present" /\ actual = "present" -> "state_exit_unchanged"
              [] state = "present" /\ actual = "absent"  -> "state_mount_datastore"]]

InputsOf(p) == [state |-> p.state, datastore_name |-> p.datastore_name,
                esxi_hostname |-> p.esxi_hostname, nfs_server |-> p.nfs_server,
                nfs_path |-> p.nfs_path, nfs_readonly |-> p.nfs_readonly]

Inputs == [state : States, datastore_name : DatastoreNames,
           esxi_hostname : EsxiHostnames, nfs_server : NfsServers,
           nfs_path : NfsPaths, nfs_readonly : BOOLEAN]

NoParams == [state |-> "present", datastore_name |-> "ds1", esxi_hostname |-> "esx1",
             nfs_server |-> "nfs1", nfs_path |-> "/export", nfs_readonly |-> FALSE,
             host_mo |-> "None", datastore_mo |-> 0]

\* The invocation just finished mounted the datastore and said so.
MountedOk ==
    /\ pc = "done"
    /\ Len(calls) = 1 /\ calls[1].op = "CreateNasDatastore" /\ calls[1].ok
    /\ Len(reports) = 1 /\ reports[1].kind = "exit_json" /\ reports[1].changed

--------------------------------------------------------------------------
Init ==
    /\ HAS_PYVMOMI \in BOOLEAN
    /\ host_datastores \in Collections
    /\ pc = "idle"
    /\ params = NoParams
    /\ check_mode = FALSE
    /\ status = "unset"
    /\ exc = NoExc
    /\ calls = <<>>
    /\ reports = <<>>
    /\ handler = "none"
    /\ before = host_datastores
    /\ prev_mounted = FALSE

\* main up to the try block: a new invocation with its parameters.
Main ==
    /\ pc \in {"idle", "done"}
    /\ \E inp \in Inputs, cm \in BOOLEAN :
          /\ params' = [state |-> inp.state, datastore_name |-> inp.datastore_name,
                        esxi_hostname |-> inp.esxi_hostname,
                        nfs_server |-> inp.nfs_server, nfs_path |-> inp.nfs_path,
                        nfs_readonly |-> inp.nfs_readonly,
                        host_mo |-> "None", datastore_mo |-> 0]
          /\ check_mode' = cm
          /\ prev_mounted' = (MountedOk /\ InputsOf(params) = inp /\ check_mode = cm)
    /\ before' = host_datastores
    /\ status' = "unset"
    /\ exc' = NoExc
    /\ calls' = <<>>
    /\ handler' = "none"
    /\ IF ~HAS_PYVMOMI
       THEN /\ reports' = <<FailReport("pyvmomi is required for this module")>>
            /\ pc' = "done"
       ELSE /\ reports' = <<>>
            /\ pc' = "check"
    /\ UNCHANGED <<HAS_PYVMOMI, host_datastores>>

\* check_datastore_status(module)
CheckDatastoreStatus ==
    /\ pc = "check"
    /\ \/ \* connect_to_api, the host lookup or the listing raises
          /\ \E e \in RemoteErrors : exc' = e
          /\ pc' = "except"
          /\ UNCHANGED <<params, status>>
       \/ \* find_hostsystem_by_name finds no host and returns None
          /\ params.esxi_hostname \notin KnownHosts
          /\ exc' = PyException("AttributeError",
                        "'NoneType' object has no attribute 'configManager'")
          /\ pc' = "except"
          /\ UNCHANGED <<params, status>>
       \/ /\ params.esxi_hostname \in KnownHosts
          /\ LET r == CheckLoop(host_datastores, params.datastore_name) IN
               /\ params' = [params EXCEPT !.host_mo = params.esxi_hostname,
                                           !.datastore_mo = r.datastore_mo]
               /\ status' = r.status
          /\ pc' = "dispatch"
          /\ exc' = NoExc
    /\ UNCHANGED <<HAS_PYVMOMI, host_datastores, check_mode, calls, reports,
                   handler, before, prev_mounted>>

\* datastore_states[module.params['state']][status]
Dispatch ==
    /\ pc = "dispatch"
    /\ IF status \in DOMAIN DatastoreStates[params.state]
       THEN /\ handler' = DatastoreStates[params.state][status]
            /\ pc' = handler'
            /\ exc' = NoExc
       ELSE /\ exc' = PyException("KeyError", status)
            /\ pc' = "except"
            /\ UNCHANGED handler
    /\ UNCHANGED <<HAS_PYVMOMI, host_datastores, params, check_mode, status,
                   calls, reports, before, prev_mounted>>

\* mount_nfsvolume: build the specification, call CreateNasDatastore, return
\* (True, result).  Called by state_mount_datastore unless dry_run.
\* The new datastore gets a fresh handle and whatever place the remote
\* side lists it at; a call that raises leaves the host as it was.
MountDatastore(dry_run) ==
    /\ pc = "state_mount_datastore"
    /\ LET nfs_ds_spec == NfsDsSpec(params.nfs_server, params.nfs_path,
                                    params.datastore_name, params.nfs_readonly)
       IN IF dry_run
          THEN /\ reports' = Append(reports, ExitReport(TRUE, PyStr(PyNone)))
               /\ pc' = "done"
               /\ UNCHANGED <<host_datastores, calls, exc>>
          ELSE \/ \* CreateNasDatastore raises
                  /\ \E e \in RemoteErrors \cup CreateRejected(host_datastores, nfs_ds_spec) :
                        exc' = e
                  /\ calls' = Append(calls, CreateCall(nfs_ds_spec, FALSE))
                  /\ pc' = "except"
                  /\ UNCHANGED <<host_datastores, reports>>
               \/ \* CreateNasDatastore returns the new datastore
                  /\ CreateRejected(host_datastores, nfs_ds_spec) = {}
                  /\ LET result == Datastore(FreshMo(host_datastores)) IN
                       /\ \E i \in 1..(Len(host_datastores) + 1) :
                             host_datastores' =
                                 InsertAt(host_datastores, i,
                                          [mo |-> result.mo, name |-> nfs_ds_spec.localPath])
                       /\ reports' = Append(reports, ExitReport(TRUE, PyStr(result)))
                  /\ calls' = Append(calls, CreateCall(nfs_ds_spec, TRUE))
                  /\ pc' = "done"
                  /\ UNCHANGED exc
    /\ UNCHANGED <<HAS_PYVMOMI, params, check_mode, status, handler, before,
                   prev_mounted>>

\* The mount handler with the check-mode test left out.
MountIgnoringCheckMode == MountDatastore(FALSE)

\* state_mount_datastore(module)
StateMountDatastore == MountDatastore(check_mode)

\* unmount_nfsvolume: call RemoveDatastore(datastore_mo), return (True, result).
\* Called by state_unmount_datastore unless dry_run.
UnmountDatastore(dry_run) ==
    /\ pc = "state_unmount_datastore"
    /\ LET datastore_mo == params.datastore_mo IN
       IF dry_run
       THEN /\ reports' = Append(reports, ExitReport(TRUE, PyStr(PyNone)))
            /\ pc' = "done"
            /\ UNCHANGED <<host_datastores, calls, exc>>
       ELSE \/ \* RemoveDatastore raises
               /\ \E e \in RemoteErrors : exc' = e
               /\ calls' = Append(calls, RemoveCall(datastore_mo, FALSE))
               /\ pc' = "except"
               /\ UNCHANGED <<host_datastores, reports>>
            \/ \* RemoveDatastore returns None
               /\ host_datastores' = RemoveMo(host_datastores, datastore_mo)
               /\ calls' = Append(calls, RemoveCall(datastore_mo, TRUE))
               /\ reports' = Append(reports, ExitReport(TRUE, PyStr(PyNone)))
               /\ pc' = "done"
               /\ UNCHANGED exc
    /\ UNCHANGED <<HAS_PYVMOMI, params, check_mode, status, handler, before,
                   prev_mounted>>

\* The unmount handler with the check-mode test left out.
UnmountIgnoringCheckMode == UnmountDatastore(FALSE)

\* state_unmount_datastore(module)
StateUnmountDatastore == UnmountDatastore(check_mode)

\* A no-op report that says changed=True.
ChangedReport == ExitReport(TRUE, NoKey)

\* The report of state_exit_unchanged: changed=False and no result key.
UnchangedReport == ExitReport(FALSE, NoKey)

\* state_exit_unchanged(module)
StateExitUnchanged ==
    /\ pc = "state_exit_unchanged"
    /\ reports' = Append(reports, UnchangedReport)
    /\ pc' = "done"
    /\ UNCHANGED <<HAS_PYVMOMI, host_datastores, params, check_mode, status, exc,
                   calls, handler, before, prev_mounted>>

\* Every except clause reporting str() of the exception.
FailMsgStr(e) == e.str

\* The msg the first matching except clause of main hands to fail_json.
FailMsg(e) ==
    IF IsInstance(e, "RuntimeFault") THEN e.msg
    ELSE IF IsInstance(e, "MethodFault") THEN e.msg
    ELSE e.str

\* main's except clauses
Except ==
    /\ pc = "except"
    /\ reports' = Append(reports, FailReport(FailMsg(exc)))
    /\ pc' = "done"
    /\ UNCHANGED <<HAS_PYVMOMI, host_datastores, params, check_mode, status, exc,
                   calls, handler, before, prev_mounted>>

Next ==
    \/ Main
    \/ CheckDatastoreStatus
    \/ Dispatch
    \/ StateMountDatastore
    \/ StateUnmountDatastore
    \/ StateExitUnchanged
    \/ Except

Spec == Init /\ [][Next]_vars

\* An invocation under the scheduling of a single-threaded script: once
\* started it runs on until it has reported.
Step ==
    \/ CheckDatastoreStatus
    \/ Dispatch
    \/ StateMountDatastore
    \/ StateUnmountDatastore
    \/ StateExitUnchanged
    \/ Except

FairSpec == Spec /\ WF_vars(Step)

--------------------------------------------------------------------------
(* Vocabulary of the properties *)

Handlers == {"state_mount_datastore", "state_unmount_datastore", "state_exit_unchanged"}
Mutating == {"state_mount_datastore", "state_unmount_datastore"}

\* The host was resolved and its datastore collection was read.
CollectionRead == status # "unset"
\* The datastore asked for was on the host when the invocation started.
Mounted == params.datastore_name \in NamesOf(before)
\* Position and handle of the datastore asked for, when Mounted.
PositionOf(name) == CHOOSE i \in 1..Len(before) : before[i].name = name
HandleOf(name) == before[PositionOf(name)].mo
AllCallsReturned == \A i \in 1..Len(calls) : calls[i].ok
\* The error came from the remote side: host resolution, enumeration or the
\* mutating call.
RemoteError == exc.kind \notin {"none", "KeyError"}
Succeeded(changed) ==
    /\ Len(reports) = 1
    /\ reports[1].kind = "exit_json"
    /\ reports[1].changed = changed

--------------------------------------------------------------------------
\* C1: whenever the host is resolved and its datastore collection is read,
\* check_datastore_status yields present or absent, and main selects the
\* handler the dispatch table gives for (state, actual); no such invocation
\* ends without a handler selected.
C1_DispatchTotal ==
    CollectionRead =>
        /\ status \in States
        /\ pc \in Handlers \cup {"except", "done"} =>
              /\ handler \in Handlers
              /\ handler = DatastoreStates[params.state][status]

\* C2: the actual state is present exactly when some datastore of the
\* host's collection, at whatever position, has the name asked for, and
\* absent otherwise.
C2_PresentIffNamed ==
    CollectionRead =>
        /\ Mounted => status = "present"
        /\ ~Mounted => status = "absent"

\* C3: with state=present, (1) an invocation made while the datastore is
\* mounted issues no mutating call and reports changed=false, and (2) so does
\* the same invocation run again after one that mounted the datastore.
C3_Idempotent ==
    /\ (pc = "done" /\ CollectionRead /\ params.state = "present" /\ Mounted) =>
           (calls = <<>> /\ Succeeded(FALSE))
    /\ (pc = "done" /\ CollectionRead /\ prev_mounted) =>
           (calls = <<>> /\ Succeeded(FALSE))

\* C4: an invocation issues at most one mutating remote call on every path;
\* none in check mode or when a no-op handler is selected, exactly one once
\* the mount or unmount handler has run outside check mode; a failed call
\* is not retried.
C4_AtMostOneMutatingCall ==
    /\ Len(calls) <= 1
    /\ (check_mode \/ handler = "state_exit_unchanged") => calls = <<>>
    /\ (handler \in Mutating /\ ~check_mode /\ pc \in {"except", "done"}) =>
           Len(calls) = 1
    /\ (pc = "done" /\ \E i \in 1..Len(calls) : ~calls[i].ok) => Len(calls) = 1

C4_Witness ==
    /\ pc = "done"
    /\ handler = "state_mount_datastore"
    /\ ~check_mode
    /\ Len(calls) = 1
    /\ ~calls[1].ok

\* C5: with state=absent and the datastore mounted at any position, an
\* invocation outside check mode issues exactly one RemoveDatastore call,
\* with the handle of the datastore of that name, and reports changed=true;
\* RemoveDatastore never gets the handle of a datastore of another name.
C5_UnmountsTheNamed ==
    /\ (/\ pc = "done" /\ CollectionRead /\ params.state = "absent" /\ Mounted
        /\ ~check_mode /\ AllCallsReturned) =>
           /\ Len(calls) = 1
           /\ calls[1].op = "RemoveDatastore"
           /\ calls[1].mo = HandleOf(params.datastore_name)
           /\ Succeeded(TRUE)
    /\ \A i \in 1..Len(calls) :
           calls[i].op = "RemoveDatastore" =>
               /\ Mounted
               /\ calls[i].mo = HandleOf(params.datastore_name)

\* C6: in check mode, when the mount or unmount handler is selected, the
\* invocation reports changed=true, issues no mutating call and leaves the
\* host's datastores as they were.
C6_CheckMode ==
    (check_mode /\ handler \in Mutating) =>
        /\ calls = <<>>
        /\ host_datastores = before
        /\ pc = "done" => Succeeded(TRUE)

C6_Witness ==
    /\ pc = "done"
    /\ check_mode
    /\ handler = "state_unmount_datastore"
    /\ Succeeded(TRUE)
    /\ Mounted

\* C7: when host resolution, the enumeration or the mount/unmount call
\* raises, the invocation ends with one failure report carrying the error's
\* message, never reports changed=true, and issues no mutating call after
\* the error (none at all when the error precedes the dispatch).
C7_FailStop ==
    /\ [](RemoteError =>
            /\ \A i \in 1..Len(reports) :
                   reports[i].kind = "fail_json" /\ ~reports[i].changed
            /\ pc = "done" => reports = <<FailReport(exc.text)>>
            /\ ~CollectionRead => calls = <<>>)
    /\ [][(RemoteError /\ RemoteError') => calls' = calls]_vars

C7_Witness ==
    /\ pc = "done"
    /\ exc = RuntimeFault("connection lost")
    /\ Len(calls) = 1
    /\ calls[1].op = "CreateNasDatastore"
    /\ reports = <<FailReport("connection lost")>>

\* C8: a mount call carries remoteHost = nfs_server, remotePath = nfs_path,
\* localPath = datastore_name and accessMode readOnly or readWrite after
\* nfs_readonly; and state=present with the datastore absent mounts with
\* that specification and reports changed=true.
C8_MountSpec ==
    /\ \A i \in 1..Len(calls) :
           calls[i].op = "CreateNasDatastore" =>
               /\ calls[i].spec.remoteHost = params.nfs_server
               /\ calls[i].spec.remotePath = params.nfs_path
               /\ calls[i].spec.localPath = params.datastore_name
               /\ calls[i].spec.accessMode =
                      (IF params.nfs_readonly THEN "readOnly" ELSE "readWrite")
    /\ (/\ pc = "done" /\ CollectionRead /\ params.state = "present" /\ ~Mounted
        /\ ~check_mode /\ AllCallsReturned) =>
           /\ Len(calls) = 1
           /\ calls[1].op = "CreateNasDatastore"
           /\ Succeeded(TRUE)

\* C9: on a non-empty collection the presence check answers present exactly
\* when the first entry has the name asked for and absent otherwise, whatever
\* the later entries are; so with state=present and the datastore mounted
\* at a later position the mount handler is selected.
C9_FirstEntryDecides ==
    /\ (CollectionRead /\ before # <<>>) =>
           /\ status = "present" <=> before[1].name = params.datastore_name
           /\ status = "absent" <=> before[1].name # params.datastore_name
    /\ (/\ handler # "none" /\ params.state = "present"
        /\ \E i \in 2..Len(before) : before[i].name = params.datastore_name) =>
           handler = "state_mount_datastore"

C9_Witness ==
    /\ handler = "state_mount_datastore"
    /\ Mounted
    /\ PositionOf(params.datastore_name) = 2

\* C10: every invocation ends with exactly one report, exit_json or
\* fail_json; outside check mode a success report says changed=true exactly
\* when one mutating call was issued and returned, and a mutating call that
\* returned is followed by a success report with changed=true.
C10_OneReport ==
    /\ [](/\ Len(reports) <= 1
          /\ pc = "done" => Len(reports) = 1
          /\ (pc = "done" /\ ~check_mode /\ reports[1].kind = "exit_json") =>
                 (reports[1].changed <=> (Len(calls) = 1 /\ calls[1].ok))
          /\ (pc = "done" /\ \E i \in 1..Len(calls) : calls[i].ok) => Succeeded(TRUE))
    /\ (pc \notin {"idle", "done"}) ~> (pc = "done")

C10_Witness ==
    /\ pc = "done"
    /\ ~check_mode
    /\ Len(calls) = 1
    /\ calls[1].op = "RemoveDatastore"
    /\ calls[1].ok
    /\ Succeeded(TRUE)

==========================================================================
